---- MODULE Spec2Model ----
(***************************************************************************)
(* Optimism block execution strategy (crates/optimism/evm/src/execute.rs). *)
(*                                                                         *)
(* One OpExecutionStrategy over a revm State ("State View"), driven by a   *)
(* caller through apply_pre_execution_changes, execute_transactions,       *)
(* apply_post_execution_changes and finish.  The transaction loop of       *)
(* execute_transactions is modelled one iteration per step.  The VM and    *)
(* the store are collaborators: their answers are drawn from small sets.   *)
(***************************************************************************)
EXTENDS Integers, Sequences, FiniteSets, TLC

\* ------------------------------------------------------------------ bounds

\* Number of operations the caller invokes on one strategy: the four phases
\* in order, then finish again.
MaxCalls == 5

\* Longest block (number of transactions) the model enumerates.
MaxTxs == 2

\* The block's gas limit.  Transaction gas limits are 1, MaxGas and MaxGas + 1:
\* below the block's gas limit, equal to it, and above it.
MaxGas == 2

\* Longest block a caller runs twice.
MaxRerunTxs == 2

\* Most transactions in the blocks of two strategies that run side by side
MaxPairTxs == 2

\* Highest block number of a header handed to the eth helpers
MaxNumber == 3

\* Most ommers of a block
MaxOmmers == 2

\* Longest input of a transaction handed to the transaction builders, in bytes
MaxInputLen == 5

\* One ether, in the unit the rewards are counted in (a multiple of 32, as
\* 10^18 wei is, so that the shifts of the reward formulas lose nothing)
ETH_TO_WEI == 32

\* u64 arithmetic wraps modulo 2^64.  TLC's integers are 32 bits wide, so
\* the word is scaled to 16 bits; every gas quantity of the model is far
\* below it, as real gas quantities are far below 2^64.
U64_MODULUS == 65536

\* ------------------------------------------------------------------ values

None == [some |-> FALSE, val |-> 0]

Some(v) == [some |-> TRUE, val |-> v]

Senders == {"alice"}

BEACON_ROOTS_ADDRESS == "beacon_roots"

CREATE2_DEPLOYER_ADDR == "create2_deployer"

Beneficiary == "beneficiary"

Addrs == Senders \cup {BEACON_ROOTS_ADDRESS, CREATE2_DEPLOYER_ADDR, Beneficiary}

TxTypes == {"Legacy", "Eip4844", "Deposit"}

\* A signed transaction with its recovered sender (block.transactions_with_sender()).
\* is_system_transaction() is true only of a Deposit carrying the flag.
Transactions ==
    { t \in [tx_type : TxTypes, gas_limit : {1, MaxGas, MaxGas + 1},
             is_system_tx : BOOLEAN, sender : Senders] :
        t.is_system_tx => t.tx_type = "Deposit" }

is_deposit(tx) == tx.tx_type = "Deposit"

is_system_transaction(tx) == tx.tx_type = "Deposit" /\ tx.is_system_tx

SeqsUpTo(S, n) == UNION { [1 .. k -> S] : k \in 0 .. n }

\* BlockWithSenders: the header fields the strategy reads and the body.
Blocks == [gas_limit : {MaxGas}, transactions : SeqsUpTo(Transactions, MaxTxs)]

\* OpChainSpec: the activation of each hardfork at this block's number or
\* timestamp.  canyon_transition: Canyon is active at the block's timestamp and
\* was not two seconds earlier.
\* beacon_root: the beacon-root system call is made for this block (Cancun is
\* active and the block is not the genesis block).
\* Regolith and Canyon are independent; the other activations follow the
\* order of the hardforks.
ChainSpecs ==
    { c \in [spurious_dragon : BOOLEAN, regolith : BOOLEAN, canyon : BOOLEAN,
             canyon_transition : BOOLEAN, beacon_root : BOOLEAN] :
        /\ c.canyon_transition => c.canyon
        /\ c.beacon_root => (c.canyon /\ ~c.canyon_transition)
        /\ (c.regolith \/ c.canyon) => c.spurious_dragon }

\* ------------------------------------------------------------ the State View

\* Option<AccountInfo>: an account of the store or of the cache.
\* storage stands for the account's storage slots: the number of writes to them.
NoAccount == [exists |-> FALSE, nonce |-> 0, balance |-> 0, code |-> FALSE, storage |-> 0]

Account(n, b, c) == [exists |-> TRUE, nonce |-> n, balance |-> b, code |-> c, storage |-> 0]

\* acc.account_info().unwrap_or_default()
unwrap_or_default(acc) == IF acc.exists THEN acc ELSE Account(0, 0, FALSE)

\* The underlying stores (Database) the model enumerates: the sender exists
\* with nonce 1 or does not exist; no other account exists.
Stores ==
    { [a \in Addrs |-> IF a \in Senders THEN acc ELSE NoAccount] :
        acc \in {NoAccount, Account(1, 0, FALSE)} }

NotCached == [loaded |-> FALSE, account |-> NoAccount]

Cached(acc) == [loaded |-> TRUE, account |-> acc]

NoTransition == [present |-> FALSE, previous_info |-> NoAccount, info |-> NoAccount]

EmptyBundle == [state |-> [a \in Addrs |-> NoTransition], reverts |-> << >>]

\* State::builder().with_database(db).with_bundle_update().without_state_clear().build()
NewState(db) ==
    [database         |-> db,
     cache            |-> [a \in Addrs |-> NotCached],
     state_clear_flag |-> FALSE,
     transition_state |-> [a \in Addrs |-> NoTransition],
     bundle_state     |-> EmptyBundle]

\* What a read of the account through the State View returns: the cached
\* account on a hit, the store's on a miss.
Visible(st, a) == IF st.cache[a].loaded THEN st.cache[a].account ELSE st.database[a]

\* State::load_cache_account, when the store answers: fills the cache on a miss.
load_cache_account(st, a) ==
    IF st.cache[a].loaded THEN st
    ELSE [st EXCEPT !.cache[a] = Cached(st.database[a])]

\* TransitionState::add_transitions for one account: the first transition of
\* the block keeps the account's previous info, later ones only move info.
add_transition(st, a, before, after) ==
    IF st.transition_state[a].present
    THEN [st EXCEPT !.transition_state[a].info = after]
    ELSE [st EXCEPT !.transition_state[a] =
              [present |-> TRUE, previous_info |-> before, info |-> after]]

\* DatabaseCommit::commit of a VM state diff: a diff is a set of
\* <<address, new account>> pairs, at most one per address.
RECURSIVE commit(_, _)
commit(st, diff) ==
    IF diff = {} THEN st
    ELSE LET d      == CHOOSE x \in diff : TRUE
             a      == d[1]
             before == Visible(st, a)
             cached == [st EXCEPT !.cache[a] = Cached(d[2])]
         IN commit(add_transition(cached, a, before, d[2]), diff \ {d})

\* Mutant: BundleRetention::PlainState, the reverts are not kept.
merge_transitions_PlainState(st) ==
    LET ts == st.transition_state
    IN [st EXCEPT !.transition_state = [a \in Addrs |-> NoTransition],
                  !.bundle_state.state =
                      [a \in Addrs |-> IF ts[a].present THEN ts[a] ELSE @[a]]]

\* State::merge_transitions(BundleRetention::Reverts): folds the transitions
\* into the bundle, pushes their reverts and empties the transition state.
merge_transitions(st) ==
    LET ts == st.transition_state
        merged ==
            [a \in Addrs |->
                IF ~ts[a].present THEN st.bundle_state.state[a]
                ELSE IF st.bundle_state.state[a].present
                THEN [st.bundle_state.state[a] EXCEPT !.info = ts[a].info]
                ELSE ts[a]]
        reverts == { <<a, ts[a].previous_info>> : a \in { x \in Addrs : ts[x].present } }
    IN [st EXCEPT !.transition_state = [a \in Addrs |-> NoTransition],
                  !.bundle_state = [state   |-> merged,
                                    reverts |-> Append(st.bundle_state.reverts, reverts)]]

\* Mutant: the bundle is copied out and left in the State View.
take_bundle_Copied(st) == st

\* State::take_bundle
take_bundle(st) == [st EXCEPT !.bundle_state = EmptyBundle]

\* ----------------------------------------------------------------- the VM

\* hash of a signed transaction (recalculate_hash): the digest of the
\* transaction's fields, distinct for distinct transactions.
recalculate_hash(tx) == <<"keccak256", tx.tx_type, tx.gas_limit, tx.is_system_tx, tx.sender>>

\* evm.transact(): what the VM may answer for a transaction run against the
\* State View st.  An error is a store error met while loading (the cache is as
\* before) or an invalid transaction (the sender was loaded).  A result
\* reports gas_used <= the transaction's gas limit and a success flag; its
\* state diff sets the sender's account with the nonce incremented.
VmErrors == {"Database", "Transaction"}

VmResults(tx) ==
    [gas_used : {1, tx.gas_limit}, success : BOOLEAN]

VmStateDiff(st, tx) ==
    LET acc == unwrap_or_default(Visible(st, tx.sender))
    IN { <<tx.sender, [acc EXCEPT !.nonce = acc.nonce + 1]>> }

\* The accounts the VM reads: a view of every account through the State View.
VmView(st) == [a \in Addrs |-> Visible(st, a)]

\* One transact(): the view it ran against and its answer.
VmCall(st, ok, gas, success) ==
    [view |-> VmView(st), ok |-> ok, gas_used |-> gas, success |-> success]

\* What transact() answered: Ok(ResultAndState) or Err(error).
VmAnswer(ok, gas, success, error) ==
    [ok |-> ok, gas_used |-> gas, success |-> success, error |-> error]

\* ------------------------------------------------------- the collaborators
\* The build, the store and the VM are deterministic: asked the same again,
\* each answers the same.  What they have answered is kept:
\*   build       whether the u64 subtraction of line 170 is checked ("checks")
\*               or wraps ("wraps"),
\*   store       for each account, whether the store loads it ("ok") or
\*               fails ("err"),
\*   beacon_root whether the beacon-root system call succeeds,
\*   increments  the balance increments of the block,
\*   vm          for each transaction and view, what transact() answered.
NoAnswers ==
    [build       |-> "unknown",
     store       |-> [a \in Addrs |-> "unknown"],
     beacon_root |-> "unknown",
     increments  |-> [known |-> FALSE, val |-> {}],
     vm          |-> {}]

\* ------------------------------------------------------------------- errors

GasLimitError(gl, avail) ==
    [name |-> "TransactionGasLimitMoreThanAvailableBlockGas",
     transaction_gas_limit |-> gl, block_available_gas |-> avail]

BlobTransactionRejected == [name |-> "BlobTransactionRejected"]

AccountLoadFailed(sender) == [name |-> "AccountLoadFailed", sender |-> sender]

\* Mutant: the VM's error is replaced by a fixed one.
EvmError_Opaque(hash, error) == [name |-> "EVM", hash |-> hash, error |-> "Database"]

EvmError(hash, error) == [name |-> "EVM", hash |-> hash, error |-> error]

\* Mutant: the error of the deployer step is passed on as it is.
ForceCreate2DeployerFail_Raw == [name |-> "Database"]

ForceCreate2DeployerFail == [name |-> "ForceCreate2DeployerFail"]

BeaconRootError == [name |-> "BeaconRootContractCall"]

IncrementBalanceFailed == [name |-> "IncrementBalanceFailed"]

\* What validate_block_post_execution reports on a mismatch.
ConsensusError == [name |-> "ConsensusError"]

NoError == [name |-> "none"]

\* -------------------------------------------------------------------- state

VARIABLES
    block,                \* the block under execution (input)
    chain_spec,           \* the chain specification (input)
    state,                \* OpExecutionStrategy.state: the State View
    pc,                   \* "idle", "loop" (inside execute_transactions), "panicked"
    ncalls,               \* number of operations the caller has invoked
    idx,                  \* execute_transactions: position of the next transaction
    cumulative_gas_used,  \* execute_transactions: local
    receipts,             \* execute_transactions: local
    ret,                  \* what the last operation returned
    effects,              \* the calls the strategy made, in order
    vm_calls,             \* each transact() of the current call: what the VM read and answered
    hook,                 \* system_caller.hook: Option<Box<dyn OnStateHook>>
    answers,              \* what the collaborators (build, store, VM) have answered so far
    first,                \* the outcome of an earlier run on the same block and store
    parked,               \* a second strategy of the same factory, while the other one runs
    rpc_request,          \* eth helpers: the call that came in, with what the provider holds
    rpc_response          \* eth helpers: what the call returned

vars == <<block, chain_spec, state, pc, ncalls, idx, cumulative_gas_used,
          receipts, ret, effects, vm_calls, hook, answers, first, parked,
          rpc_request, rpc_response>>

inputs == <<block, chain_spec>>

locals == <<idx, cumulative_gas_used, receipts>>

\* What the caller holds across the operations of one run.
session == <<hook, first, parked, rpc_request, rpc_response>>

\* Mutant: a request is returned for every type of receipt passed in.
RequestsDefault_FromReceipts == { receipts[i].tx_type : i \in 1 .. Len(receipts) }

\* Line 259: Requests::default(), the empty set of requests.
RequestsDefault == {}

\* What an operation returns; requests is what Ok of
\* apply_post_execution_changes carries.
Return(op, kind, error, rcpts, gas, bundle) ==
    [op |-> op, kind |-> kind, error |-> error, receipts |-> rcpts,
     gas_used |-> gas, bundle |-> bundle,
     requests |-> IF op = "apply_post_execution_changes" /\ kind = "ok"
                  THEN RequestsDefault ELSE {}]

NoReturn == Return("none", "none", NoError, << >>, 0, EmptyBundle)

Effect(kind, i) == [call |-> ncalls, kind |-> kind, index |-> i]

\* What one run of the phases gave the caller, once it has ended.
NoRun ==
    [done |-> FALSE, hook |-> "None", pc |-> "idle", ret |-> NoReturn,
     failed_at |-> 0, receipts |-> << >>, gas_used |-> 0]

\* No second strategy.
NoStrategy == [id |-> 0]

\* No call of the eth helpers.
NoRequest == [method |-> "none"]

NoResponse == [kind |-> "none"]

\* OpExecutionStrategyFactory::create_strategy
Init ==
    /\ block \in Blocks
    /\ chain_spec \in ChainSpecs
    /\ \E db \in Stores : state = NewState(db)
    /\ pc = "idle"
    /\ ncalls = 0
    /\ idx = 0
    /\ cumulative_gas_used = 0
    /\ receipts = << >>
    /\ ret = NoReturn
    /\ effects = << >>
    /\ vm_calls = << >>
    /\ hook = "None"
    /\ answers = NoAnswers
    /\ first = NoRun
    /\ parked = NoStrategy
    /\ rpc_request = NoRequest
    /\ rpc_response = NoResponse

\* ----------------------------------------------------- execute_transactions

Txs == block.transactions

CurTx == Txs[idx]

is_regolith == chain_spec.regolith

is_canyon == chain_spec.canyon

\* block.header.gas_limit - cumulative_gas_used, in u64: the subtraction
\* overflows when cumulative_gas_used is the larger.
SubOverflows == cumulative_gas_used > block.gas_limit

block_available_gas == (block.gas_limit - cumulative_gas_used) % U64_MODULUS

\* The iteration goes on past line 170: the subtraction did not panic.
NoPanic == SubOverflows => answers.build # "checks"

Wrapped(ans) == IF SubOverflows THEN [ans EXCEPT !.build = "wraps"] ELSE ans

\* Mutant: every deposit is exempt from the check before Regolith.
GasLimitExceeded_DepositsExempt ==
    /\ CurTx.gas_limit > block_available_gas
    /\ (is_regolith \/ ~is_deposit(CurTx))

GasLimitExceeded ==
    /\ CurTx.gas_limit > block_available_gas
    /\ (is_regolith \/ ~is_system_transaction(CurTx))

\* Mutant: the blob check is missing.
IsBlob_Never == FALSE

IsBlob == CurTx.tx_type = "Eip4844"

\* Mutant: the snapshot is taken for every deposit, Regolith active or not.
TakesSnapshot_AnyDeposit == is_deposit(CurTx)

TakesSnapshot == is_regolith /\ is_deposit(CurTx)

\* The State View after the depositor snapshot (when one is taken).
AfterSnapshot ==
    IF TakesSnapshot THEN load_cache_account(state, CurTx.sender) ELSE state

\* The snapshot reads the store: the sender is not in the cache.
LoadsSender == TakesSnapshot /\ ~state.cache[CurTx.sender].loaded

SenderLoads == LoadsSender => answers.store[CurTx.sender] # "err"

SenderLoaded(ans) ==
    IF LoadsSender THEN [ans EXCEPT !.store[CurTx.sender] = "ok"] ELSE ans

\* transact() may answer a: it has not answered otherwise for this
\* transaction against this view.
VmMayAnswer(a) ==
    \A p \in answers.vm :
        (p.tx = CurTx /\ p.view = VmView(AfterSnapshot)) => p.answer = a

VmAnswered(ans, a) ==
    [ans EXCEPT !.vm = @ \cup {[tx |-> CurTx, view |-> VmView(AfterSnapshot),
                                answer |-> a]}]

\* Mutant: the snapshot reads the store under the State View.
depositor_FromStore ==
    IF TakesSnapshot
    THEN Some(unwrap_or_default(state.database[CurTx.sender]))
    ELSE None

\* Mutant: no snapshot for a sender without an account.
depositor_IfExists ==
    IF TakesSnapshot /\ Visible(state, CurTx.sender).exists
    THEN Some(Visible(state, CurTx.sender))
    ELSE None

\* depositor: Option<AccountInfo>
depositor ==
    IF TakesSnapshot
    THEN Some(unwrap_or_default(Visible(state, CurTx.sender)))
    ELSE None

deposit_nonce == IF depositor.some THEN Some(depositor.val.nonce) ELSE None

\* Mutant: the version is set on every receipt once Canyon is active.
deposit_receipt_version_AnyTx == IF is_canyon THEN Some(1) ELSE None

\* Lines 233-239: (transaction.is_deposit() && Canyon active).then_some(1)
receipt_version(tx, canyon) ==
    IF is_deposit(tx) /\ canyon THEN Some(1) ELSE None

deposit_receipt_version == receipt_version(CurTx, is_canyon)

\* Mutant: every receipt is given the Legacy type.
NewReceipt_LegacyType(result, cumulative) ==
    [tx_type                 |-> "Legacy",
     success                 |-> result.success,
     cumulative_gas_used     |-> cumulative,
     deposit_nonce           |-> deposit_nonce,
     deposit_receipt_version |-> deposit_receipt_version]

\* Mutant: the receipt says success whatever the VM reported.
NewReceipt_AlwaysSuccess(result, cumulative) ==
    [tx_type                 |-> CurTx.tx_type,
     success                 |-> TRUE,
     cumulative_gas_used     |-> cumulative,
     deposit_nonce           |-> deposit_nonce,
     deposit_receipt_version |-> deposit_receipt_version]

\* Mutant: the receipt carries the transaction's own gas, not the running total.
NewReceipt_OwnGas(result, cumulative) ==
    [tx_type                 |-> CurTx.tx_type,
     success                 |-> result.success,
     cumulative_gas_used     |-> result.gas_used,
     deposit_nonce           |-> deposit_nonce,
     deposit_receipt_version |-> deposit_receipt_version]

NewReceipt(result, cumulative) ==
    [tx_type                 |-> CurTx.tx_type,
     success                 |-> result.success,
     cumulative_gas_used     |-> cumulative,
     deposit_nonce           |-> deposit_nonce,
     deposit_receipt_version |-> deposit_receipt_version]

\* Line 217, SystemCaller::on_state: the registered hook, if any, is invoked.
OnState ==
    IF hook = "Some"
    THEN <<Effect("on_state", idx), Effect("hook", idx)>>
    ELSE <<Effect("on_state", idx)>>

\* Mutant: the diff is committed before it is forwarded to the hook.
ExecutedDone_CommitFirst ==
    <<Effect("transact", idx), Effect("commit", idx)>> \o OnState \o
    <<Effect("receipt", idx)>>

\* The calls of lines 203-240 when the VM returns a result.
ExecutedDone ==
    <<Effect("transact", idx)>> \o OnState \o
    <<Effect("commit", idx), Effect("receipt", idx)>>

ChecksDone ==
    <<Effect("gas_limit_check", idx), Effect("blob_check", idx)>>

SnapshotDone ==
    IF TakesSnapshot THEN <<Effect("load_cache_account", idx)>> ELSE << >>

InLoop == pc = "loop" /\ idx <= Len(Txs)

\* Mutant: the error is returned with the receipts collected so far.
Fail_WithReceipts(error) ==
    /\ ret' = Return("execute_transactions", "err", error, receipts,
                     cumulative_gas_used, EmptyBundle)
    /\ pc' = "idle"

Fail(error) ==
    /\ ret' = Return("execute_transactions", "err", error, << >>, 0, EmptyBundle)
    /\ pc' = "idle"

\* Mutant: the transitions are merged into the bundle after every commit.
Committed_Merged ==
    merge_transitions(commit(AfterSnapshot, VmStateDiff(AfterSnapshot, CurTx)))

\* Mutant: the state diff is not committed.
Committed_Dropped == AfterSnapshot

\* Mutant: a registered hook is handed the diff, which is then not committed.
Committed_UnlessHooked ==
    IF hook = "Some" THEN AfterSnapshot
    ELSE commit(AfterSnapshot, VmStateDiff(AfterSnapshot, CurTx))

\* Lines 217-219: the State View after the commit of the transaction's diff.
Committed == commit(AfterSnapshot, VmStateDiff(AfterSnapshot, CurTx))

\* The caller: it invokes the phases in order, one after the other has
\* returned, and stops at the first error.  n is the place of the call.
CallerAt(n) ==
    /\ pc = "idle"
    /\ ret.kind # "err"
    /\ ncalls < MaxCalls
    /\ ncalls = n - 1

\* The caller invokes execute_transactions: lines 159-166.
ExecuteTransactions ==
    /\ CallerAt(2)
    /\ ncalls' = ncalls + 1
    /\ pc' = "loop"
    /\ idx' = 1
    /\ cumulative_gas_used' = 0
    /\ receipts' = << >>
    /\ vm_calls' = << >>
    /\ ret' = NoReturn
    /\ UNCHANGED <<inputs, session, state, effects, answers>>

\* The subtraction of line 170 overflows in a build with overflow checks: panic.
TxSubOverflowPanic ==
    /\ InLoop
    /\ SubOverflows
    /\ answers.build # "wraps"
    /\ answers' = [answers EXCEPT !.build = "checks"]
    /\ pc' = "panicked"
    /\ ret' = Return("execute_transactions", "panic", NoError, << >>, 0, EmptyBundle)
    /\ UNCHANGED <<inputs, session, state, ncalls, locals, effects, vm_calls>>

\* Lines 170-179.
TxGasLimitExceeded ==
    /\ InLoop
    /\ NoPanic
    /\ GasLimitExceeded
    /\ answers' = Wrapped(answers)
    /\ Fail(GasLimitError(CurTx.gas_limit, block_available_gas))
    /\ effects' = effects \o <<Effect("gas_limit_check", idx)>>
    /\ UNCHANGED <<inputs, session, state, ncalls, locals, vm_calls>>

\* Lines 181-184.
TxBlobRejected ==
    /\ InLoop
    /\ NoPanic
    /\ ~GasLimitExceeded
    /\ IsBlob
    /\ answers' = Wrapped(answers)
    /\ Fail(BlobTransactionRejected)
    /\ effects' = effects \o ChecksDone
    /\ UNCHANGED <<inputs, session, state, ncalls, locals, vm_calls>>

\* Lines 191-198, the store failing to answer: only a cache miss reads it.
TxAccountLoadFailed ==
    /\ InLoop
    /\ ~GasLimitExceeded
    /\ ~IsBlob
    /\ NoPanic
    /\ LoadsSender
    /\ answers.store[CurTx.sender] # "ok"
    /\ answers' = [Wrapped(answers) EXCEPT !.store[CurTx.sender] = "err"]
    /\ Fail(AccountLoadFailed(CurTx.sender))
    /\ effects' = effects \o ChecksDone \o SnapshotDone
    /\ UNCHANGED <<inputs, session, state, ncalls, locals, vm_calls>>

\* Mutant: a failing transact() discards what the State View buffered.
VmFailed_RolledBack(e) == NewState(state.database)

\* Lines 203-210, the State View after transact() returned Err: the VM wrote
\* nothing; it may have read the sender into the cache before the error.
VmFailed(e) ==
    IF e = "Database" THEN AfterSnapshot
    ELSE load_cache_account(AfterSnapshot, CurTx.sender)

\* Lines 200-210, the VM returning an error.
TxVmError ==
    /\ InLoop
    /\ ~GasLimitExceeded
    /\ ~IsBlob
    /\ NoPanic
    /\ SenderLoads
    /\ \E e \in VmErrors :
        /\ VmMayAnswer(VmAnswer(FALSE, 0, FALSE, e))
        /\ answers' = VmAnswered(SenderLoaded(Wrapped(answers)),
                                 VmAnswer(FALSE, 0, FALSE, e))
        /\ Fail(EvmError(recalculate_hash(CurTx), e))
        /\ state' = VmFailed(e)
    /\ vm_calls' = Append(vm_calls, VmCall(AfterSnapshot, FALSE, 0, FALSE))
    /\ effects' = effects \o ChecksDone \o SnapshotDone \o <<Effect("transact", idx)>>
    /\ UNCHANGED <<inputs, session, ncalls, locals>>

\* Lines 200-241, the VM returning a result and a state diff.
TxExecuted ==
    /\ InLoop
    /\ ~GasLimitExceeded
    /\ ~IsBlob
    /\ NoPanic
    /\ SenderLoads
    /\ \E result \in VmResults(CurTx) :
        LET cumulative == (cumulative_gas_used + result.gas_used) % U64_MODULUS
            answer     == VmAnswer(TRUE, result.gas_used, result.success, "none")
        IN /\ VmMayAnswer(answer)
           /\ answers' = VmAnswered(SenderLoaded(Wrapped(answers)), answer)
           /\ cumulative_gas_used' = cumulative
           /\ receipts' = Append(receipts, NewReceipt(result, cumulative))
           /\ vm_calls' = Append(vm_calls, VmCall(AfterSnapshot, TRUE,
                                                  result.gas_used, result.success))
    /\ state' = Committed
    /\ effects' = effects \o ChecksDone \o SnapshotDone \o ExecutedDone
    /\ idx' = idx + 1
    /\ UNCHANGED <<inputs, session, pc, ncalls, ret>>

\* Line 243.
ExecuteTransactionsOk ==
    /\ pc = "loop"
    /\ idx > Len(Txs)
    /\ ret' = Return("execute_transactions", "ok", NoError, receipts,
                     cumulative_gas_used, EmptyBundle)
    /\ pc' = "idle"
    /\ UNCHANGED <<inputs, session, state, ncalls, locals, effects, vm_calls, answers>>

\* ---------------------------------------------- apply_pre_execution_changes

Returns(op, kind, error) ==
    /\ ret' = Return(op, kind, error, << >>, 0, EmptyBundle)
    /\ ncalls' = ncalls + 1
    /\ UNCHANGED <<inputs, session, pc, locals, vm_calls>>

NextEffect(kind) == [call |-> ncalls + 1, kind |-> kind, index |-> 0]

\* Mutant: the flag is left as the factory set it.
WithStateClearFlag_Off(st) == st

\* Lines 130-132.
WithStateClearFlag(st) == [st EXCEPT !.state_clear_flag = chain_spec.spurious_dragon]

\* SystemCaller::apply_beacon_root_contract_call, when it succeeds: if the call
\* is made, its diff, a write to the contract's storage, is committed.
BeaconRootCall(st) ==
    IF chain_spec.beacon_root
    THEN LET acc == unwrap_or_default(Visible(st, BEACON_ROOTS_ADDRESS))
         IN commit(st, { <<BEACON_ROOTS_ADDRESS,
                            [acc EXCEPT !.storage = acc.storage + 1]>> })
    ELSE st

\* ensure_create2_deployer, at the Canyon transition and when the store
\* answers: the account is loaded and committed with the deployer's code.
EnsureCreate2Deployer(st) ==
    IF chain_spec.canyon_transition
    THEN LET loaded == load_cache_account(st, CREATE2_DEPLOYER_ADDR)
             acc    == unwrap_or_default(Visible(loaded, CREATE2_DEPLOYER_ADDR))
         IN commit(loaded, { <<CREATE2_DEPLOYER_ADDR, [acc EXCEPT !.code = TRUE]>> })
    ELSE st

\* The beacon-root call, when it is made, succeeds.
BeaconRootOk(ans) ==
    IF chain_spec.beacon_root THEN [ans EXCEPT !.beacon_root = "ok"] ELSE ans

\* The deployer step reads the store: the deployer is not in the cache.
LoadsDeployer ==
    chain_spec.canyon_transition /\ ~state.cache[CREATE2_DEPLOYER_ADDR].loaded

\* The calls of lines 130-142 when the beacon-root call succeeds: the hook, if
\* any, is given the state diff of the system call.
BeaconRootDone ==
    <<NextEffect("set_state_clear_flag"), NextEffect("apply_beacon_root_contract_call")>>
    \o (IF chain_spec.beacon_root /\ hook = "Some" THEN <<NextEffect("hook")>> ELSE << >>)

\* Lines 137-142, the beacon-root call failing.
PreBeaconRootFails ==
    /\ CallerAt(1)
    /\ chain_spec.beacon_root
    /\ answers.beacon_root # "ok"
    /\ answers' = [answers EXCEPT !.beacon_root = "err"]
    /\ Returns("apply_pre_execution_changes", "err", BeaconRootError)
    /\ state' = WithStateClearFlag(state)
    /\ effects' = effects \o <<NextEffect("set_state_clear_flag"),
                               NextEffect("apply_beacon_root_contract_call")>>

\* Lines 148-149, the deployer step failing: the store does not answer.
PreDeployerFails ==
    /\ CallerAt(1)
    /\ LoadsDeployer
    /\ answers.beacon_root # "err"
    /\ answers.store[CREATE2_DEPLOYER_ADDR] # "ok"
    /\ answers' = [BeaconRootOk(answers) EXCEPT !.store[CREATE2_DEPLOYER_ADDR] = "err"]
    /\ Returns("apply_pre_execution_changes", "err", ForceCreate2DeployerFail)
    /\ state' = BeaconRootCall(WithStateClearFlag(state))
    /\ effects' = effects \o BeaconRootDone \o <<NextEffect("ensure_create2_deployer")>>

\* Lines 129-151.
ApplyPreExecutionChanges ==
    /\ CallerAt(1)
    /\ answers.beacon_root # "err"
    /\ LoadsDeployer => answers.store[CREATE2_DEPLOYER_ADDR] # "err"
    /\ answers' = IF LoadsDeployer
                  THEN [BeaconRootOk(answers) EXCEPT !.store[CREATE2_DEPLOYER_ADDR] = "ok"]
                  ELSE BeaconRootOk(answers)
    /\ Returns("apply_pre_execution_changes", "ok", NoError)
    /\ state' = EnsureCreate2Deployer(BeaconRootCall(WithStateClearFlag(state)))
    /\ effects' = effects \o BeaconRootDone \o <<NextEffect("ensure_create2_deployer")>>

\* --------------------------------------------- apply_post_execution_changes

\* post_block_balance_increments: the increments of this block, by address.
BalanceIncrements == { {}, {<<Beneficiary, 1>>} }

\* State::increment_balances, when the store answers.
RECURSIVE increment_balances(_, _)
increment_balances(st, incs) ==
    IF incs = {} THEN st
    ELSE LET d      == CHOOSE x \in incs : TRUE
             a      == d[1]
             loaded == load_cache_account(st, a)
             before == Visible(loaded, a)
             acc    == unwrap_or_default(before)
             after  == [acc EXCEPT !.balance = acc.balance + d[2]]
             cached == [loaded EXCEPT !.cache[a] = Cached(after)]
         IN increment_balances(add_transition(cached, a, before, after), incs \ {d})

\* post_block_balance_increments answers incs for this block.
IncrementsAre(incs) == answers.increments.known => answers.increments.val = incs

\* increment_balances reads the store for the accounts that are not in the cache.
LoadsIncremented(incs) ==
    { d[1] : d \in { x \in incs : ~state.cache[x[1]].loaded } }

\* Lines 252-257, an account of the increments failing to load.
PostIncrementFails ==
    /\ CallerAt(3)
    /\ ~state.cache[Beneficiary].loaded
    /\ IncrementsAre({<<Beneficiary, 1>>})
    /\ answers.store[Beneficiary] # "ok"
    /\ answers' = [answers EXCEPT !.increments = [known |-> TRUE, val |-> {<<Beneficiary, 1>>}],
                                  !.store[Beneficiary] = "err"]
    /\ Returns("apply_post_execution_changes", "err", IncrementBalanceFailed)
    /\ effects' = effects \o <<NextEffect("increment_balances")>>
    /\ UNCHANGED state

\* Lines 252-259.
ApplyPostExecutionChanges ==
    /\ CallerAt(3)
    /\ Returns("apply_post_execution_changes", "ok", NoError)
    /\ \E incs \in BalanceIncrements :
        /\ IncrementsAre(incs)
        /\ \A a \in LoadsIncremented(incs) : answers.store[a] # "err"
        /\ answers' = [answers EXCEPT
                          !.increments = [known |-> TRUE, val |-> incs],
                          !.store = [a \in Addrs |->
                                       IF a \in LoadsIncremented(incs) THEN "ok" ELSE @[a]]]
        /\ state' = increment_balances(state, incs)
    /\ effects' = effects \o <<NextEffect("increment_balances")>>

\* ------------------------------------------------------------------- finish

\* Lines 274-277.
Finish ==
    /\ \E n \in 4 .. MaxCalls : CallerAt(n)
    /\ LET merged == merge_transitions(state)
       IN /\ ret' = Return("finish", "ok", NoError, << >>, 0, merged.bundle_state)
          /\ state' = take_bundle(merged)
    /\ ncalls' = ncalls + 1
    /\ effects' = effects \o <<NextEffect("merge_transitions"), NextEffect("take_bundle")>>
    /\ UNCHANGED <<inputs, session, pc, locals, vm_calls, answers>>

\* ------------------------------------------------------------ specification

Next ==
    \/ ApplyPreExecutionChanges
    \/ PreBeaconRootFails
    \/ PreDeployerFails
    \/ ExecuteTransactions
    \/ TxSubOverflowPanic
    \/ TxGasLimitExceeded
    \/ TxBlobRejected
    \/ TxAccountLoadFailed
    \/ TxVmError
    \/ TxExecuted
    \/ ExecuteTransactionsOk
    \/ ApplyPostExecutionChanges
    \/ PostIncrementFails
    \/ Finish

Spec == Init /\ [][Next]_vars

\* The caller goes on invoking the phases and every iteration of the loop
\* ends: an operation that can take its next step takes it.
SpecFair == Spec /\ WF_vars(Next)

\* --------------------------------------------------- a caller with a hook

\* Lines 270-272: the caller registers a hook before it runs the phases.
WithStateHook ==
    /\ pc = "idle"
    /\ ncalls = 0
    /\ hook = "None"
    /\ hook' = "Some"
    /\ UNCHANGED <<inputs, state, pc, ncalls, locals, ret, effects, vm_calls,
                   answers, first, parked, rpc_request, rpc_response>>

NextHook ==
    \/ WithStateHook
    \/ ApplyPreExecutionChanges
    \/ PreBeaconRootFails
    \/ PreDeployerFails
    \/ ExecuteTransactions
    \/ TxSubOverflowPanic
    \/ TxGasLimitExceeded
    \/ TxBlobRejected
    \/ TxAccountLoadFailed
    \/ TxVmError
    \/ TxExecuted
    \/ ExecuteTransactionsOk
    \/ ApplyPostExecutionChanges
    \/ PostIncrementFails
    \/ Finish

SpecHook == Init /\ [][NextHook]_vars

\* ------------------------------------------- a caller that runs a block twice

\* The run has ended: a phase returned an error, or panicked, or the fourth
\* phase, finish, has returned.
RunEnded ==
    \/ pc = "panicked"
    \/ pc = "idle" /\ ret.kind = "err"
    \/ pc = "idle" /\ ret.op = "finish" /\ ncalls = 4

\* What the run gave the caller: the last return (the error, or the bundle of
\* finish), the transaction execute_transactions stopped at, and the receipts
\* and gas used it returned.
Outcome ==
    LET stopped == ret.op = "execute_transactions" /\ ret.kind # "ok"
        got     == ncalls >= 2 /\ ~stopped
    IN [done      |-> TRUE,
        hook      |-> hook,
        pc        |-> pc,
        ret       |-> ret,
        failed_at |-> IF stopped THEN idx ELSE 0,
        receipts  |-> IF got THEN receipts ELSE << >>,
        gas_used  |-> IF got THEN cumulative_gas_used ELSE 0]

\* Mutant: the new strategy is given the State View cache of the one before.
create_strategy_Reused(db) == [NewState(db) EXCEPT !.cache = state.cache]

\* Lines 63-70: a new strategy over the store db.
create_strategy(db) == NewState(db)

\* The caller keeps the outcome of the run and creates a new strategy from the
\* factory, over the same store, for the same block; it may register a hook
\* on it (lines 270-272).
Rerun ==
    /\ ~first.done
    /\ RunEnded
    /\ first' = Outcome
    /\ state' = create_strategy(state.database)
    /\ hook' \in {"None", "Some"}
    /\ pc' = "idle"
    /\ ncalls' = 0
    /\ idx' = 0
    /\ cumulative_gas_used' = 0
    /\ receipts' = << >>
    /\ ret' = NoReturn
    /\ effects' = << >>
    /\ vm_calls' = << >>
    /\ UNCHANGED <<inputs, answers, parked, rpc_request, rpc_response>>

NextTwice ==
    \/ Rerun
    \/ ApplyPreExecutionChanges
    \/ PreBeaconRootFails
    \/ PreDeployerFails
    \/ ExecuteTransactions
    \/ TxSubOverflowPanic
    \/ TxGasLimitExceeded
    \/ TxBlobRejected
    \/ TxAccountLoadFailed
    \/ TxVmError
    \/ TxExecuted
    \/ ExecuteTransactionsOk
    \/ ApplyPostExecutionChanges
    \/ PostIncrementFails
    \/ Finish

InitTwice == Init /\ Len(block.transactions) <= MaxRerunTxs

SpecTwice == InitTwice /\ [][NextTwice]_vars

\* ------------------------------------ a caller that validates the receipts

\* Mutant: on a mismatch the receipts are dropped.
validate_block_post_execution_Corrected(blk, spec, rcpts, matches) ==
    [kind     |-> IF matches THEN "ok" ELSE "err",
     error    |-> IF matches THEN NoError ELSE ConsensusError,
     receipts |-> IF matches THEN rcpts ELSE << >>]

\* Lines 279-286: &self, &block and &[Receipt] are handed on to the consensus
\* check, which answers Ok(()) or the mismatch it found; receipts is the
\* caller's slice as it is after the call.
validate_block_post_execution(blk, spec, rcpts, matches) ==
    [kind     |-> IF matches THEN "ok" ELSE "err",
     error    |-> IF matches THEN NoError ELSE ConsensusError,
     receipts |-> rcpts]

\* The caller validates the receipts of the block once its three phases have
\* returned and before it calls finish.
ValidateBlockPostExecution ==
    /\ pc = "idle"
    /\ ncalls = 3
    /\ ret.op = "apply_post_execution_changes"
    /\ ret.kind = "ok"
    /\ \E matches \in BOOLEAN :
          LET res == validate_block_post_execution(block, chain_spec, receipts, matches)
          IN /\ ret' = Return("validate_block_post_execution", res.kind, res.error,
                              << >>, 0, EmptyBundle)
             /\ receipts' = res.receipts
    /\ UNCHANGED <<inputs, session, state, pc, ncalls, idx, cumulative_gas_used,
                   effects, vm_calls, answers>>

NextValidate ==
    \/ ValidateBlockPostExecution
    \/ ApplyPreExecutionChanges
    \/ PreBeaconRootFails
    \/ PreDeployerFails
    \/ ExecuteTransactions
    \/ TxSubOverflowPanic
    \/ TxGasLimitExceeded
    \/ TxBlobRejected
    \/ TxAccountLoadFailed
    \/ TxVmError
    \/ TxExecuted
    \/ ExecuteTransactionsOk
    \/ ApplyPostExecutionChanges
    \/ PostIncrementFails
    \/ Finish

SpecValidate == Init /\ [][NextValidate]_vars

\* ------------------------------------- two strategies of the same factory

\* Lines 74-87 and 154-158: what a strategy owns (its State View and its
\* system caller with the hook), the block its caller works on, and where its
\* caller stands: the locals of the running phase, the returns and the
\* answers its own store and VM gave.
Strategy(id, blk, st, hk, at, n, i, gas, rcpts, r, eff, calls, ans) ==
    [id |-> id, block |-> blk, state |-> st, hook |-> hk, pc |-> at,
     ncalls |-> n, idx |-> i, cumulative_gas_used |-> gas, receipts |-> rcpts,
     ret |-> r, effects |-> eff, vm_calls |-> calls, answers |-> ans]

\* The strategy whose phase calls the variables follow.
Running ==
    Strategy(3 - parked.id, block, state, hook, pc, ncalls, idx,
             cumulative_gas_used, receipts, ret, effects, vm_calls, answers)

\* Mutant: the two strategies work on one State View.
Owned_SharedState(own, other) == [own EXCEPT !.state = other.state]

\* Lines 67-69 and 85: the State View is built by create_strategy for the new
\* strategy and held by value in it, so a strategy finds what it owns as it
\* left it, whatever the other strategy did.
Owned(own, other) == own

\* The factory creates two strategies (lines 63-70, called twice) with the
\* same chain spec, each over a store of its own; the two stores start with
\* the same accounts and answer each on its own.  The second strategy is given
\* the block of the first or a block without transactions.
InitPair ==
    /\ block \in Blocks
    /\ chain_spec \in ChainSpecs
    /\ \E db \in Stores : state = create_strategy(db)
    /\ pc = "idle"
    /\ ncalls = 0
    /\ idx = 0
    /\ cumulative_gas_used = 0
    /\ receipts = << >>
    /\ ret = NoReturn
    /\ effects = << >>
    /\ vm_calls = << >>
    /\ hook = "None"
    /\ answers = NoAnswers
    /\ first = NoRun
    /\ rpc_request = NoRequest
    /\ rpc_response = NoResponse
    /\ \E blk \in {block, [block EXCEPT !.transactions = << >>]} :
          /\ Len(block.transactions) + Len(blk.transactions) <= MaxPairTxs
          /\ parked = Strategy(2, blk, create_strategy(state.database), "None",
                               "idle", 0, 0, 0, << >>, NoReturn, << >>, << >>,
                               NoAnswers)

\* Between two phase calls of one strategy, the caller of the other strategy
\* makes its next calls.
Switch ==
    /\ pc = "idle"
    /\ parked.id # 0
    /\ LET next == Owned(parked, Running)
       IN /\ parked' = Running
          /\ block' = next.block
          /\ state' = next.state
          /\ hook' = next.hook
          /\ pc' = next.pc
          /\ ncalls' = next.ncalls
          /\ idx' = next.idx
          /\ cumulative_gas_used' = next.cumulative_gas_used
          /\ receipts' = next.receipts
          /\ ret' = next.ret
          /\ effects' = next.effects
          /\ vm_calls' = next.vm_calls
          /\ answers' = next.answers
    /\ UNCHANGED <<chain_spec, first, rpc_request, rpc_response>>

NextPair ==
    \/ Switch
    \/ ApplyPreExecutionChanges
    \/ PreBeaconRootFails
    \/ PreDeployerFails
    \/ ExecuteTransactions
    \/ TxSubOverflowPanic
    \/ TxGasLimitExceeded
    \/ TxBlobRejected
    \/ TxAccountLoadFailed
    \/ TxVmError
    \/ TxExecuted
    \/ ExecuteTransactionsOk
    \/ ApplyPostExecutionChanges
    \/ PostIncrementFails
    \/ Finish

SpecPair == InitPair /\ [][NextPair]_vars

\* -------------------------------------------------- eth helpers: rewards

RewardAuthors == {"miner", "uncle_miner"}

\* Header: the fields the reward helpers read.
Headers == [number : 2 .. MaxNumber, difficulty : {0, 1}, beneficiary : RewardAuthors]

\* The ommers a block with header h may have.
OmmersOf(h) ==
    SeqsUpTo([number : {h.number - 2, h.number - 1}, difficulty : {0},
              beneficiary : RewardAuthors], MaxOmmers)

\* ForkCondition of the Paris hardfork: Block(fork_block),
\* TTD { fork_block, total_difficulty } or Never.
ParisConditions ==
    { c \in [kind : {"Block", "TTD", "Never"},
             fork_block : {None} \cup { Some(b) : b \in 2 .. MaxNumber + 1 },
             total_difficulty : {0, 1}] :
        /\ c.kind = "Block" => c.fork_block.some /\ c.total_difficulty = 0
        /\ c.kind = "Never" => ~c.fork_block.some /\ c.total_difficulty = 0 }

\* ChainSpec: the Paris condition and the activation of Byzantium and
\* Constantinople at the header's number.
RewardChainSpecs ==
    { c \in [paris : ParisConditions, byzantium : BOOLEAN, constantinople : BOOLEAN] :
        c.constantinople => c.byzantium }

\* ChainSpec::is_paris_active_at_block: Option<bool>
is_paris_active_at_block(cs, number) ==
    CASE cs.paris.kind = "Block" ->
           IF cs.paris.fork_block.val <= number THEN "Some(true)" ELSE "Some(false)"
      [] cs.paris.kind = "TTD" /\ cs.paris.fork_block.some ->
           IF cs.paris.fork_block.val <= number THEN "Some(true)" ELSE "Some(false)"
      [] OTHER -> "None"

saturating_sub(a, b) == IF a >= b THEN a - b ELSE 0

\* ForkCondition::active_at_ttd
active_at_ttd(cond, ttd, difficulty) ==
    cond.kind = "TTD" /\ saturating_sub(ttd, difficulty) >= cond.total_difficulty

\* calc::base_block_reward_pre_merge
base_block_reward_pre_merge(cs, number) ==
    IF cs.constantinople THEN 2 * ETH_TO_WEI
    ELSE IF cs.byzantium THEN 3 * ETH_TO_WEI
    ELSE 5 * ETH_TO_WEI

\* calc::base_block_reward
base_block_reward(cs, number, difficulty, total_difficulty) ==
    IF active_at_ttd(cs.paris, total_difficulty, difficulty)
    THEN None
    ELSE Some(base_block_reward_pre_merge(cs, number))

\* calc::block_reward: base + (base >> 5) * ommers
block_reward(base, ommers) == base + (base \div 32) * ommers

\* calc::ommer_reward: ((8 + ommer - block) * base) >> 3
ommer_reward(base, number, ommer_number) == ((8 + ommer_number - number) * base) \div 8

\* trace::reward_trace: the trace of one reward, localized to the block.
reward_trace(header, author, reward_type, value) ==
    [block_number |-> header.number,
     block_hash   |-> <<"hash_slow", header.number, header.difficulty, header.beneficiary>>,
     author       |-> author,
     reward_type  |-> reward_type,
     value        |-> value]

\* Lines 44-74
extract_reward_traces(header, ommers, base) ==
    <<reward_trace(header, header.beneficiary, "Block", block_reward(base, Len(ommers)))>>
    \o [i \in 1 .. Len(ommers) |->
          reward_trace(header, ommers[i].beneficiary, "Uncle",
                       ommer_reward(base, header.number, ommers[i].number))]

\* Mutant: an unknown Paris activation is taken for an inactive one.
calculate_base_block_reward_TwoWay(cs, header) ==
    IF is_paris_active_at_block(cs, header.number) = "Some(true)"
    THEN None
    ELSE Some(base_block_reward_pre_merge(cs, header.number))

\* Lines 76-94; the Result is always Ok.
calculate_base_block_reward(cs, header) ==
    CASE is_paris_active_at_block(cs, header.number) = "Some(true)" -> None
      [] is_paris_active_at_block(cs, header.number) = "Some(false)" ->
           Some(base_block_reward_pre_merge(cs, header.number))
      [] OTHER -> base_block_reward(cs, header.number, header.difficulty, 0)

\* Lines 96-110
get_block_rewards(cs, header, ommers) ==
    LET base == calculate_base_block_reward(cs, header)
    IN [kind  |-> "Ok",
        value |-> Some(IF base.some
                       THEN extract_reward_traces(header, ommers, base.val)
                       ELSE << >>)]

\* A call of get_block_rewards, with the chain spec of the provider.
RewardRequest(cs, h, om) ==
    [method |-> "get_block_rewards", chain_spec |-> cs, header |-> h, ommers |-> om]

\* ------------------------------------------- eth helpers: block receipts

\* TransactionSigned: its hash and whether its signer can be recovered.
RpcTransactions == [hash : {"0xa", "0xb"}, signed : BOOLEAN]

\* The stored receipts of a block.
StoredReceipts == [cumulative_gas_used : {1, 2}]

\* SealedBlock: the header fields the helpers read, the hash and the body.
SealedBlocks ==
    [number : 2 .. MaxNumber, base_fee_per_gas : {None, Some(1)}, hash : {"0xb10c"},
     excess_blob_gas : {None}, timestamp : {7},
     transactions : SeqsUpTo(RpcTransactions, MaxTxs)]

NoBlock ==
    [number |-> 0, base_fee_per_gas |-> None, hash |-> "none",
     excess_blob_gas |-> None, timestamp |-> 0, transactions |-> << >>]

\* load_block_and_receipts: Err, Ok(None) or Ok(Some((block, receipts))).
Loaded(kind, found, blk, rcpts) ==
    [kind |-> kind, found |-> found, block |-> blk, receipts |-> rcpts]

ReceiptMethods == {"block_receipts", "block_receipts_eth", "block_receipts_op"}

\* A call of one of the block_receipts helpers, with what the provider
\* answers for its block id.
ReceiptRequest(method, load) == [method |-> method, load |-> load]

RpcOk(value) == [kind |-> "Ok", value |-> value, error |-> "none"]

RpcErr(error) == [kind |-> "Err", value |-> None, error |-> error]

\* Lines 48-56: TransactionMeta of the transaction at position idx (from 0).
TransactionMeta(tx, idx0, blk) ==
    [tx_hash         |-> tx.hash,
     index           |-> idx0,
     block_hash      |-> blk.hash,
     block_number    |-> blk.number,
     base_fee        |-> blk.base_fee_per_gas,
     excess_blob_gas |-> blk.excess_blob_gas,
     timestamp       |-> blk.timestamp]

\* ReceiptBuilder::new(...).map(|builder| builder.build()): fails when the
\* signer of the transaction cannot be recovered; the RPC receipt carries the
\* meta data and the stored receipt.
ReceiptBuilder_new(tx, meta, receipt, all_receipts) ==
    IF tx.signed
    THEN RpcOk([transaction_hash    |-> meta.tx_hash,
                transaction_index   |-> meta.index,
                block_hash          |-> meta.block_hash,
                block_number        |-> meta.block_number,
                base_fee            |-> meta.base_fee,
                timestamp           |-> meta.timestamp,
                cumulative_gas_used |-> receipt.cumulative_gas_used])
    ELSE RpcErr("InvalidTransactionSignature")

LenMin(a, b) == IF Len(a) <= Len(b) THEN Len(a) ELSE Len(b)

\* Lines 43-60: into_iter().zip(receipts.iter()).enumerate().map(...)
BuiltReceipts(blk, rcpts) ==
    [i \in 1 .. LenMin(blk.transactions, rcpts) |->
        ReceiptBuilder_new(blk.transactions[i],
                           TransactionMeta(blk.transactions[i], i - 1, blk),
                           rcpts[i], rcpts)]

\* Mutant: a receipt that cannot be built is left out of the list.
collect_SkipFailed(results) ==
    LET built == SelectSeq(results, LAMBDA r : r.kind = "Ok")
    IN RpcOk([i \in 1 .. Len(built) |-> built[i].value])

\* Lines 61-62: collect::<Result<Vec<_>, Self::Error>>(): the first Err, or
\* all the values.
collect(results) ==
    LET failed == { i \in 1 .. Len(results) : results[i].kind = "Err" }
    IN IF failed = {}
       THEN RpcOk([i \in 1 .. Len(results) |-> results[i].value])
       ELSE results[CHOOSE i \in failed : \A j \in failed : i <= j]

\* Lines 28-68
block_receipts(load) ==
    IF load.kind = "Err" THEN RpcErr("load_block_and_receipts")
    ELSE IF load.found
         THEN LET res == collect(BuiltReceipts(load.block, load.receipts))
              IN IF res.kind = "Ok" THEN RpcOk(Some(res.value)) ELSE res
         ELSE RpcOk(None)

\* Lines 70-110
block_receipts_eth(load) ==
    IF load.kind = "Err" THEN RpcErr("load_block_and_receipts")
    ELSE IF load.found
         THEN LET res == collect(BuiltReceipts(load.block, load.receipts))
              IN IF res.kind = "Ok" THEN RpcOk(Some(res.value)) ELSE res
         ELSE RpcOk(None)

\* Lines 112-124: the block id is dropped and nothing is loaded.
block_receipts_op(load) == RpcOk(None)

\* -------------------------------------- eth helpers: transaction builders

\* TransactionSignedEcRecovered: the transaction (its type, input and fee
\* cap), its signature and hash, and the recovered signer.
SignedTransactions ==
    [tx_type : {"Legacy", "Eip2930", "Eip1559", "Eip4844", "Eip7702", "Deposit"},
     input : SeqsUpTo({170, 187}, MaxInputLen), max_fee_per_gas : {1, 3},
     signature : {Some(27)}, hash : {Some(164)}, signer : {"alice", "bob"}]

\* TransactionInfo: the fields fill reads.
TransactionInfos ==
    [block_hash : {None, Some(177)}, block_number : {None, Some(2)},
     index : {None, Some(0), Some(1)}, base_fee : {None, Some(2)}]

\* Lines 164-179: the envelope of the transaction; a signed envelope keeps
\* signature and hash, the Deposit envelope holds the transaction only.
OpTxEnvelope(tx) ==
    [tx_type         |-> tx.tx_type,
     input           |-> tx.input,
     max_fee_per_gas |-> tx.max_fee_per_gas,
     signature       |-> IF tx.tx_type = "Deposit" THEN None ELSE tx.signature,
     hash            |-> IF tx.tx_type = "Deposit" THEN None ELSE tx.hash]

\* Lines 187-191: base fee plus the tip the fee cap leaves (none when the cap
\* is below the base fee), or the fee cap when there is no base fee.
effective_gas_price(inner, base_fee) ==
    IF base_fee.some
    THEN (IF inner.max_fee_per_gas >= base_fee.val
          THEN inner.max_fee_per_gas - base_fee.val ELSE 0) + base_fee.val
    ELSE inner.max_fee_per_gas

RpcPanic(what) == [kind |-> "Panic", value |-> None, error |-> what]

\* Mutant: the version is the one the receipt of a deposit carries after Canyon.
OpTxBuilder_fill_AsReceipt(tx, tx_info) ==
    RpcOk([inner                   |-> OpTxEnvelope(tx),
           block_hash              |-> tx_info.block_hash,
           block_number            |-> tx_info.block_number,
           transaction_index       |-> tx_info.index,
           from                    |-> tx.signer,
           effective_gas_price     |-> Some(effective_gas_price(OpTxEnvelope(tx),
                                                                tx_info.base_fee)),
           deposit_receipt_version |-> receipt_version(tx, TRUE)])

\* Lines 156-204: OpTxBuilder::fill; line 174 is unreachable!() for Eip4844.
OpTxBuilder_fill(tx, tx_info) ==
    IF tx.tx_type = "Eip4844" THEN RpcPanic("unreachable")
    ELSE RpcOk([inner                   |-> OpTxEnvelope(tx),
                block_hash              |-> tx_info.block_hash,
                block_number            |-> tx_info.block_number,
                transaction_index       |-> tx_info.index,
                from                    |-> tx.signer,
                effective_gas_price     |-> Some(effective_gas_price(OpTxEnvelope(tx),
                                                                     tx_info.base_fee)),
                deposit_receipt_version |-> Some(0)])

\* A call of OpTxBuilder::fill; canyon: whether Canyon was active for the block
\* of the transaction, when its receipt was built.
FillRequest(tx, tx_info, canyon) ==
    [method |-> "fill", tx |-> tx, tx_info |-> tx_info, canyon |-> canyon]

\* The RPC transaction a builder made of t: for EthTxBuilder a Transaction
\* with a TxEnvelope (an Eip4844 one with or without sidecar), for OpTxBuilder
\* an Optransaction with an OpTxEnvelope.
RpcTransaction(builder, t, sidecar) ==
    [inner |-> [tx_type         |-> t.tx_type,
                sidecar         |-> sidecar,
                input           |-> t.input,
                max_fee_per_gas |-> t.max_fee_per_gas,
                signature       |-> IF t.tx_type = "Deposit" THEN None ELSE t.signature,
                hash            |-> IF t.tx_type = "Deposit" THEN None ELSE t.hash],
     block_hash              |-> Some(177),
     block_number            |-> Some(2),
     transaction_index       |-> Some(0),
     from                    |-> t.signer,
     effective_gas_price     |-> Some(t.max_fee_per_gas),
     deposit_receipt_version |-> IF builder = "OpTxBuilder" THEN Some(0) ELSE None]

\* Bytes::slice(..end) of lines 144 and 215, for end within the input.
slice(input, end) == SubSeq(input, 1, end)

\* The truncation with the range cut to the input's length: an input shorter
\* than 4 bytes is left whole.
truncate_input_Saturating(tx, handled) ==
    IF tx.inner.tx_type \notin handled THEN RpcOk(tx)
    ELSE RpcOk([tx EXCEPT !.inner.input =
                   slice(tx.inner.input,
                         IF Len(tx.inner.input) < 4 THEN Len(tx.inner.input) ELSE 4)])

\* Lines 133-144 and 207-215: the input of an envelope of a handled type is
\* replaced by input.slice(..4), which panics when the range ends beyond
\* the input; any other envelope is left as it is.
truncate_input(tx, handled) ==
    IF tx.inner.tx_type \notin handled THEN RpcOk(tx)
    ELSE IF Len(tx.inner.input) < 4 THEN RpcPanic("range end out of bounds")
    ELSE RpcOk([tx EXCEPT !.inner.input = slice(tx.inner.input, 4)])

\* Lines 132-145
EthTxBuilder_otterscan_api_truncate_input(tx) ==
    truncate_input(tx, {"Eip1559", "Eip2930", "Legacy", "Eip4844", "Eip7702"})

\* Lines 206-216
OpTxBuilder_otterscan_api_truncate_input(tx) ==
    truncate_input(tx, {"Eip1559", "Eip2930", "Legacy", "Eip7702", "Deposit"})

\* A caller applies otterscan_api_truncate_input of a builder to an RPC
\* transaction, once or twice.
TruncateRequest(builder, tx, times) ==
    [method |-> "otterscan_api_truncate_input", builder |-> builder, tx |-> tx,
     times |-> times]

\* The calls that come in.
IsRequest(r) ==
    \/ \E h \in Headers, cs \in RewardChainSpecs :
         \E om \in OmmersOf(h) : r = RewardRequest(cs, h, om)
    \/ \E method \in ReceiptMethods :
         \/ r = ReceiptRequest(method, Loaded("Err", FALSE, NoBlock, << >>))
         \/ r = ReceiptRequest(method, Loaded("Ok", FALSE, NoBlock, << >>))
         \/ \E blk \in SealedBlocks, rcpts \in SeqsUpTo(StoredReceipts, MaxTxs) :
              r = ReceiptRequest(method, Loaded("Ok", TRUE, blk, rcpts))
    \/ \E tx \in SignedTransactions, tx_info \in TransactionInfos, canyon \in BOOLEAN :
         r = FillRequest(tx, tx_info, canyon)
    \/ \E t \in SignedTransactions, times \in {1, 2} :
         \/ /\ t.tx_type # "Deposit"
            /\ \E sidecar \in BOOLEAN :
                 /\ sidecar => t.tx_type = "Eip4844"
                 /\ r = TruncateRequest("EthTxBuilder",
                                        RpcTransaction("EthTxBuilder", t, sidecar), times)
         \/ /\ t.tx_type # "Eip4844"
            /\ r = TruncateRequest("OpTxBuilder",
                                   RpcTransaction("OpTxBuilder", t, FALSE), times)

\* A call of one of the eth helpers comes in; no block is being executed.
InitRpc ==
    /\ block = [gas_limit |-> MaxGas, transactions |-> << >>]
    /\ chain_spec = [spurious_dragon |-> TRUE, regolith |-> TRUE, canyon |-> TRUE,
                     canyon_transition |-> FALSE, beacon_root |-> FALSE]
    /\ state = NewState([a \in Addrs |-> NoAccount])
    /\ pc = "idle"
    /\ ncalls = 0
    /\ idx = 0
    /\ cumulative_gas_used = 0
    /\ receipts = << >>
    /\ ret = NoReturn
    /\ effects = << >>
    /\ vm_calls = << >>
    /\ hook = "None"
    /\ answers = NoAnswers
    /\ first = NoRun
    /\ parked = NoStrategy
    /\ IsRequest(rpc_request)
    /\ rpc_response = NoResponse

strategy == <<block, chain_spec, state, pc, ncalls, idx, cumulative_gas_used,
              receipts, ret, effects, vm_calls, hook, answers, first, parked>>

GetBlockRewards ==
    /\ rpc_request.method = "get_block_rewards"
    /\ rpc_response = NoResponse
    /\ rpc_response' = get_block_rewards(rpc_request.chain_spec, rpc_request.header,
                                         rpc_request.ommers)
    /\ UNCHANGED <<strategy, rpc_request>>

BlockReceipts ==
    /\ rpc_request.method = "block_receipts"
    /\ rpc_response = NoResponse
    /\ rpc_response' = block_receipts(rpc_request.load)
    /\ UNCHANGED <<strategy, rpc_request>>

BlockReceiptsEth ==
    /\ rpc_request.method = "block_receipts_eth"
    /\ rpc_response = NoResponse
    /\ rpc_response' = block_receipts_eth(rpc_request.load)
    /\ UNCHANGED <<strategy, rpc_request>>

BlockReceiptsOp ==
    /\ rpc_request.method = "block_receipts_op"
    /\ rpc_response = NoResponse
    /\ rpc_response' = block_receipts_op(rpc_request.load)
    /\ UNCHANGED <<strategy, rpc_request>>

Fill ==
    /\ rpc_request.method = "fill"
    /\ rpc_response = NoResponse
    /\ rpc_response' = OpTxBuilder_fill(rpc_request.tx, rpc_request.tx_info)
    /\ UNCHANGED <<strategy, rpc_request>>

OtterscanTruncateInput ==
    /\ rpc_request.method = "otterscan_api_truncate_input"
    /\ rpc_response = NoResponse
    /\ LET once == IF rpc_request.builder = "EthTxBuilder"
                   THEN EthTxBuilder_otterscan_api_truncate_input(rpc_request.tx)
                   ELSE OpTxBuilder_otterscan_api_truncate_input(rpc_request.tx)
       IN rpc_response' =
            IF rpc_request.times = 1 \/ once.kind # "Ok" THEN once
            ELSE IF rpc_request.builder = "EthTxBuilder"
                 THEN EthTxBuilder_otterscan_api_truncate_input(once.value)
                 ELSE OpTxBuilder_otterscan_api_truncate_input(once.value)
    /\ UNCHANGED <<strategy, rpc_request>>

NextRpc ==
    \/ GetBlockRewards
    \/ BlockReceipts
    \/ BlockReceiptsEth
    \/ BlockReceiptsOp
    \/ Fill
    \/ OtterscanTruncateInput

SpecRpc == InitRpc /\ [][NextRpc]_vars

\* ------------------------------------------------------------------- claims

\* execute_transactions has returned Ok((receipts, gas_used)).
Succeeded == ret.op = "execute_transactions" /\ ret.kind = "ok"

\* execute_transactions has returned Err(error); idx is the failing transaction.
Failed == ret.op = "execute_transactions" /\ ret.kind = "err"

\* C1: when execute_transactions succeeds, there are as many receipts as
\* transactions, and receipt i is the one pushed for transaction i and carries
\* that transaction's type.
C1_ReceiptPerTransaction ==
    Succeeded =>
        /\ Len(ret.receipts) = Len(Txs)
        /\ \A i \in 1 .. Len(Txs) : ret.receipts[i].tx_type = Txs[i].tx_type
        /\ LET pushed == SelectSeq(effects, LAMBDA e : e.call = ncalls /\ e.kind = "receipt")
           IN /\ Len(pushed) = Len(Txs)
              /\ \A i \in 1 .. Len(pushed) : pushed[i].index = i

C1_Witness ==
    /\ Succeeded
    /\ Len(Txs) = 2
    /\ Txs[1].tx_type # Txs[2].tx_type

\* Sum of the gas the VM reported for the first n transactions of the call.
RECURSIVE SumGasUsed(_)
SumGasUsed(n) == IF n = 0 THEN 0 ELSE SumGasUsed(n - 1) + vm_calls[n].gas_used

\* C2: when execute_transactions succeeds, receipt i's cumulative_gas_used is
\* the sum of the gas the VM reported for the transactions up to i, the
\* sequence is non-decreasing, and the last value is the returned total (0 for
\* a block without transactions).
C2_CumulativeGas ==
    Succeeded =>
        /\ \A i \in 1 .. Len(ret.receipts) :
               ret.receipts[i].cumulative_gas_used = SumGasUsed(i)
        /\ \A i \in 1 .. Len(ret.receipts) - 1 :
               ret.receipts[i].cumulative_gas_used <= ret.receipts[i + 1].cumulative_gas_used
        /\ ret.gas_used = IF ret.receipts = << >> THEN 0
                          ELSE ret.receipts[Len(ret.receipts)].cumulative_gas_used

C2_Witness ==
    /\ Succeeded
    /\ Len(ret.receipts) = 2
    /\ ret.receipts[1].cumulative_gas_used < ret.receipts[2].cumulative_gas_used
    /\ ret.gas_used = MaxGas

\* The gas left in the block for the transaction at idx: the block's gas limit
\* minus the gas used by the earlier transactions, as an integer.
RemainingGas == block.gas_limit - SumGasUsed(idx - 1)

\* C3: a transaction whose gas limit exceeds the remaining block gas, with
\* Regolith active or the transaction not a system transaction, makes
\* execute_transactions fail with TransactionGasLimitMoreThanAvailableBlockGas
\* carrying its gas limit and the remaining gas; a system transaction before
\* Regolith is not checked and is handed to the VM.
C3_GasLimitCheck ==
    [][InLoop =>
        /\ (CurTx.gas_limit > RemainingGas
              /\ (is_regolith \/ ~is_system_transaction(CurTx)))
            => /\ pc' = "idle"
               /\ ret'.kind = "err"
               /\ ret'.error = GasLimitError(CurTx.gas_limit, RemainingGas)
        /\ (is_system_transaction(CurTx) /\ ~is_regolith)
            => Len(vm_calls') = Len(vm_calls) + 1]_vars

HasBlob == \E i \in 1 .. Len(Txs) : Txs[i].tx_type = "Eip4844"

\* C4 as claimed: a block that contains a blob transaction makes
\* execute_transactions fail with BlobTransactionRejected.
C4_AnyBlobRejected ==
    (ret.op = "execute_transactions" /\ HasBlob) =>
        (ret.kind = "err" /\ ret.error.name = "BlobTransactionRejected")

\* C4, amended: execute_transactions never succeeds on a block that contains
\* a blob transaction, and when it fails at a blob transaction whose gas limit
\* passes the gas-limit check, the error is BlobTransactionRejected, under
\* every activation of Regolith and Canyon.
C4_BlobRejected ==
    /\ Succeeded => ~HasBlob
    /\ (Failed /\ IsBlob /\ ~GasLimitExceeded) =>
           ret.error.name = "BlobTransactionRejected"

C4_Witness ==
    /\ Failed
    /\ idx = 2
    /\ IsBlob
    /\ ret.error.name = "BlobTransactionRejected"
    /\ is_regolith
    /\ ~is_canyon

\* C5: in every receipt, deposit_nonce is None for a non-deposit transaction
\* and for a deposit before Regolith, and with Regolith active it is Some(n),
\* n the sender's nonce in the State View when the transaction was executed.
C5_DepositNonce ==
    \A i \in 1 .. Len(receipts) :
        receipts[i].deposit_nonce =
            IF is_deposit(Txs[i]) /\ is_regolith
            THEN Some(vm_calls[i].view[Txs[i].sender].nonce)
            ELSE None

C5_Witness ==
    /\ Len(receipts) = 2
    /\ is_regolith
    /\ is_deposit(Txs[2])
    /\ receipts[2].deposit_nonce = Some(2)
    /\ ~is_deposit(Txs[1])
    /\ receipts[1].deposit_nonce = None

\* C6: in every receipt, deposit_receipt_version is Some(1) exactly when the
\* transaction is a Deposit and Canyon is active, and None otherwise.
C6_DepositReceiptVersion ==
    \A i \in 1 .. Len(receipts) :
        /\ receipts[i].deposit_receipt_version \in {None, Some(1)}
        /\ receipts[i].deposit_receipt_version = Some(1)
               <=> (is_deposit(Txs[i]) /\ is_canyon)

C6_Witness ==
    /\ Len(receipts) = 2
    /\ is_canyon
    /\ is_deposit(Txs[2])
    /\ receipts[2].deposit_receipt_version = Some(1)
    /\ ~is_deposit(Txs[1])
    /\ receipts[1].deposit_receipt_version = None

SoleTxOverBlockGasLimit ==
    /\ ret.op = "execute_transactions"
    /\ Len(Txs) = 1
    /\ Txs[1].gas_limit > block.gas_limit

GasLimitErrorNoReceipts ==
    /\ ret.kind = "err"
    /\ ret.error = GasLimitError(Txs[1].gas_limit, block.gas_limit)
    /\ ret.receipts = << >>

\* C7 as claimed: a block whose only transaction has a gas limit above the
\* block's gas limit fails with the gas-limit error and no receipts.
C7_SoleTxOverLimitFails == SoleTxOverBlockGasLimit => GasLimitErrorNoReceipts

\* C7, amended: a block whose only transaction has a gas limit above the
\* block's gas limit fails with the gas-limit error and no receipts, unless
\* the transaction is a system transaction and Regolith is not active.
C7_SoleTxOverLimit ==
    (SoleTxOverBlockGasLimit /\ (is_regolith \/ ~is_system_transaction(Txs[1])))
        => GasLimitErrorNoReceipts

C7_Witness ==
    /\ SoleTxOverBlockGasLimit
    /\ ~is_regolith
    /\ is_deposit(Txs[1])
    /\ ~is_system_transaction(Txs[1])
    /\ GasLimitErrorNoReceipts

\* The effects of the current call of execute_transactions.
CallEffects == SelectSeq(effects, LAMBDA e : e.call = 2)

\* C8: when execute_transactions fails at transaction idx, it returns no
\* receipts, the failing transaction was neither reported to the hook nor
\* committed nor given a receipt, and no later transaction was touched.
C8_FailsAtOnce ==
    Failed =>
        /\ ret.receipts = << >>
        /\ ret.gas_used = 0
        /\ idx <= Len(Txs)
        /\ Len(receipts) = idx - 1
        /\ LET ce == CallEffects
           IN \A k \in 1 .. Len(ce) :
               /\ ce[k].index <= idx
               /\ ce[k].index = idx =>
                      ce[k].kind \notin {"on_state", "commit", "receipt"}
        /\ state.transition_state["alice"].present => idx > 1

C8_Witness ==
    /\ Failed
    /\ idx = 2
    /\ Len(Txs) = 2
    /\ Len(receipts) = 1
    /\ ret.error.name = "EVM"

NoFinishYet == \A k \in 1 .. Len(effects) : effects[k].kind # "take_bundle"

\* C9: as long as finish has not been called, whatever the phases called and
\* whether they succeeded or failed, the State View's bundle is the one the
\* strategy was created with.
C9_BundleOnlyByFinish ==
    NoFinishYet => state.bundle_state = NewState(state.database).bundle_state

C9_Witness ==
    /\ NoFinishYet
    /\ ncalls = 3
    /\ ret.op = "apply_post_execution_changes"
    /\ \A a \in {"alice", Beneficiary, BEACON_ROOTS_ADDRESS} :
           state.transition_state[a].present

EffectRank(kind) ==
    CASE kind = "gas_limit_check"    -> 1
      [] kind = "blob_check"         -> 2
      [] kind = "load_cache_account" -> 3
      [] kind = "transact"           -> 4
      [] kind = "on_state"           -> 5
      [] kind = "commit"             -> 6
      [] kind = "receipt"            -> 7
      [] OTHER                       -> 0

\* C10: the transactions are processed one at a time in block order, each
\* committed before the next is checked, and the VM runs transaction i against
\* a State View holding the pre-execution changes and the diffs of the
\* transactions before i.
C10_SequentialExecution ==
    /\ LET ce == CallEffects
       IN \A k \in 1 .. Len(ce) - 1 :
           LET e == ce[k]
               f == ce[k + 1]
           IN \/ e.index = f.index /\ EffectRank(e.kind) < EffectRank(f.kind)
              \/ /\ f.index = e.index + 1
                 /\ e.kind = "receipt"
                 /\ f.kind = "gas_limit_check"
    /\ \A i \in 1 .. Len(vm_calls) :
           LET view == vm_calls[i].view
               from == unwrap_or_default(state.database[Txs[i].sender])
           IN /\ view[Txs[i].sender].nonce = from.nonce + (i - 1)
              /\ view[Txs[i].sender].exists = (i > 1 \/ state.database[Txs[i].sender].exists)
              /\ view[BEACON_ROOTS_ADDRESS].storage = (IF chain_spec.beacon_root THEN 1 ELSE 0)
              /\ view[CREATE2_DEPLOYER_ADDR].code = chain_spec.canyon_transition

C10_Witness ==
    /\ Len(vm_calls) = 2
    /\ vm_calls[2].ok
    /\ vm_calls[2].view["alice"].nonce = 2
    /\ vm_calls[2].view[BEACON_ROOTS_ADDRESS].storage = 1

\* C11: when the four phases are run twice on the same block, chain
\* specification and store, each time on a new strategy set up alike, the
\* second run ends as the first did: the same receipts and total gas used and
\* the same bundle, or the same error at the same transaction.
C11_Deterministic ==
    (first.done /\ RunEnded /\ hook = first.hook) => Outcome = first

C11_Witness ==
    /\ first.done
    /\ RunEnded
    /\ hook = first.hook
    /\ ret.op = "finish"
    /\ Len(first.receipts) = 1
    /\ first.receipts[1].deposit_nonce = Some(1)
    /\ first.ret.bundle.state["alice"].present

\* The lifecycle state of the strategy: the state an operation leads to is
\* reached when the operation returns Ok.
Phase ==
    CASE pc = "idle" /\ ret.kind = "err" -> "Error"
      [] pc # "idle"                      -> "PreExecuted"
      [] ncalls = 0                       -> "Created"
      [] ncalls = 1                       -> "PreExecuted"
      [] ncalls = 2                       -> "TransactionsExecuted"
      [] ncalls = 3                       -> "PostExecuted"
      [] OTHER                            -> "Finalized"

PhaseSteps ==
    {<<"Created", "PreExecuted">>, <<"PreExecuted", "TransactionsExecuted">>,
     <<"TransactionsExecuted", "PostExecuted">>, <<"PostExecuted", "Finalized">>,
     <<"Created", "Error">>, <<"PreExecuted", "Error">>,
     <<"TransactionsExecuted", "Error">>}

\* The states follow one another in order, one per operation, and an error
\* is followed by no other state.
C12_PhaseOrder == [][Phase' = Phase \/ <<Phase, Phase'>> \in PhaseSteps]_vars

\* The run reaches Finalized or an error returned by a phase.
C12_EventuallyEnds == <>(Phase \in {"Finalized", "Error"})

\* C12: driven through the four phases once each in order, the strategy goes
\* through Created, PreExecuted, TransactionsExecuted, PostExecuted and
\* Finalized in that order, one state per operation, an error is followed by
\* no later state, and every run reaches Finalized or an error returned by a
\* phase.
C12_Lifecycle == C12_PhaseOrder /\ C12_EventuallyEnds

\* The transactions of the current call the VM has executed without error.
ExecutedTxs == { i \in 1 .. Len(vm_calls) : vm_calls[i].ok }

\* C13: with a hook registered, the hook is invoked exactly once for every
\* transaction the VM executed without error, right after the result is
\* forwarded and before the diff is committed and the receipt appended, in
\* block order, and never for a transaction that was rejected or that the
\* VM failed; without a hook nothing is invoked.
C13_HookPerExecutedTx ==
    LET ce    == CallEffects
        hooks == SelectSeq(ce, LAMBDA e : e.kind = "hook")
    IN /\ hook = "None" => hooks = << >>
       /\ hook = "Some" =>
            /\ Len(hooks) = Cardinality(ExecutedTxs)
            /\ \A i \in 1 .. Len(hooks) : hooks[i].index = i /\ i \in ExecutedTxs
            /\ \A k \in 1 .. Len(ce) :
                   ce[k].kind = "hook" =>
                       /\ k > 2 /\ k + 2 <= Len(ce)
                       /\ ce[k - 2] = [ce[k] EXCEPT !.kind = "transact"]
                       /\ ce[k - 1] = [ce[k] EXCEPT !.kind = "on_state"]
                       /\ ce[k + 1] = [ce[k] EXCEPT !.kind = "commit"]
                       /\ ce[k + 2] = [ce[k] EXCEPT !.kind = "receipt"]
            /\ Failed => \A k \in 1 .. Len(ce) : ce[k].kind = "hook" => ce[k].index < idx

C13_Witness ==
    /\ hook = "Some"
    /\ Failed
    /\ Len(Txs) = 2
    /\ idx = 2
    /\ ret.error.name = "EVM"
    /\ Len(SelectSeq(CallEffects, LAMBDA e : e.kind = "hook")) = 1

C15_StateClearFlag ==
    /\ ncalls = 0 => state = NewState(state.database) /\ ~state.state_clear_flag
    /\ ncalls >= 1 => state.state_clear_flag = chain_spec.spurious_dragon
    /\ effects # << >> =>
           effects[1] = [call |-> 1, kind |-> "set_state_clear_flag", index |-> 0]
    /\ \A k \in 2 .. Len(effects) : effects[k].kind # "set_state_clear_flag"

C15_Witness ==
    /\ ncalls = 1
    /\ ret.kind = "ok"
    /\ state.state_clear_flag
    /\ state.transition_state[BEACON_ROOTS_ADDRESS].present
    /\ effects[2].kind = "apply_beacon_root_contract_call"

\* The calls of apply_pre_execution_changes, in order (the hook's aside).
PreCalls ==
    LET pre == SelectSeq(effects, LAMBDA e : e.call = 1 /\ e.kind # "hook")
    IN [k \in 1 .. Len(pre) |-> pre[k].kind]

C17_SnapshotLoad ==
    LET ce         == CallEffects
        Has(i, kd) == \E k \in 1 .. Len(ce) : ce[k].index = i /\ ce[k].kind = kd
        loadFailed == Failed /\ ret.error.name = "AccountLoadFailed"
    IN /\ \A i \in 1 .. Len(Txs) :
              /\ Has(i, "load_cache_account") => (is_regolith /\ is_deposit(Txs[i]))
              /\ (Has(i, "transact") /\ is_regolith /\ is_deposit(Txs[i]))
                     => Has(i, "load_cache_account")
       /\ loadFailed =>
              /\ is_regolith /\ is_deposit(CurTx)
              /\ ret.error = [name |-> "AccountLoadFailed", sender |-> CurTx.sender]
              /\ Has(idx, "load_cache_account")
              /\ ~Has(idx, "transact")
              /\ Len(vm_calls) = idx - 1

C17_Witness ==
    /\ Failed
    /\ ret.error.name = "AccountLoadFailed"
    /\ ret.error.sender = "alice"
    /\ Len(Txs) = 2
    /\ idx = 1
    /\ vm_calls = << >>

\* C18: execute_transactions fails with BlockValidationError::EVM exactly
\* when the VM returned an error; the failing transaction is then the first
\* in block order on which the VM failed, the error carries that
\* transaction's hash and the error the VM returned for it.
C18_EvmError ==
    LET vmFailed == vm_calls # << >> /\ ~vm_calls[Len(vm_calls)].ok
    IN /\ \A i \in 1 .. Len(vm_calls) - 1 : vm_calls[i].ok
       /\ (Failed /\ ret.error.name = "EVM") <=> (pc = "idle" /\ vmFailed)
       /\ (Failed /\ ret.error.name = "EVM") =>
              /\ Len(vm_calls) = idx
              /\ ret.error.hash = recalculate_hash(Txs[idx])
              /\ \E p \in answers.vm :
                     /\ p.tx = Txs[idx]
                     /\ p.view = vm_calls[idx].view
                     /\ ~p.answer.ok
                     /\ p.answer.error = ret.error.error

C18_Witness ==
    /\ Failed
    /\ ret.error.name = "EVM"
    /\ ret.error.error = "Transaction"
    /\ idx = 2
    /\ Txs[1] # Txs[2]
    /\ ret.error.hash = recalculate_hash(Txs[2])

\* C19: apply_post_execution_changes either adds the block's balance
\* increments to the accounts in the State View, leaving every other account
\* as it was, and returns the empty request set, whatever the block and the
\* receipts of its transactions; or, an increment failing to apply, returns
\* IncrementBalanceFailed.
C19_PostExecution ==
    [][(ncalls = 2 /\ ncalls' = 3) =>
        /\ ret'.op = "apply_post_execution_changes"
        /\ \E incs \in BalanceIncrements :
            \/ /\ ret'.kind = "ok"
               /\ ret'.error.name = "none"
               /\ ret'.requests = {}
               /\ \A d \in incs :
                      /\ Visible(state', d[1]).exists
                      /\ Visible(state', d[1]).balance =
                             unwrap_or_default(Visible(state, d[1])).balance + d[2]
                      /\ state'.transition_state[d[1]].present
               /\ \A a \in Addrs \ { d[1] : d \in incs } :
                      /\ Visible(state', a) = Visible(state, a)
                      /\ state'.transition_state[a] = state.transition_state[a]
            \/ /\ ret'.kind = "err"
               /\ ret'.error.name = "IncrementBalanceFailed"
               /\ incs # {}]_vars

C19_Witness ==
    /\ ncalls = 3
    /\ ret.op = "apply_post_execution_changes"
    /\ ret.kind = "ok"
    /\ ret.requests = {}
    /\ Len(receipts) = 2
    /\ Visible(state, Beneficiary).balance = 1

\* The accounts the block wrote: the beacon-roots contract and the create2
\* deployer (pre-execution), the senders of the executed transactions, the
\* accounts of the balance increments (post-execution).
Written ==
    (IF chain_spec.beacon_root THEN {BEACON_ROOTS_ADDRESS} ELSE {})
    \cup (IF chain_spec.canyon_transition THEN {CREATE2_DEPLOYER_ADDR} ELSE {})
    \cup { Txs[i].sender : i \in 1 .. Len(receipts) }
    \cup { d[1] : d \in answers.increments.val }

\* C20: after three successful phases, the bundle finish returns holds, for
\* exactly the accounts the block wrote, the account as the last write left
\* it (the pre-execution changes, then each transaction's diff in block
\* order, then the balance increments) and, as revert information, the
\* account as it was in the store before the block; the State View keeps no
\* transition and no bundle.
C20_FinishBundle ==
    (ret.op = "finish" /\ ncalls = 4) =>
        LET b  == ret.bundle
            db == state.database
        IN /\ \A a \in Addrs : b.state[a].present <=> a \in Written
           /\ \A a \in Written :
                  /\ b.state[a].info = Visible(state, a)
                  /\ b.state[a].previous_info = db[a]
           /\ b.reverts = << { <<a, db[a]>> : a \in Written } >>
           /\ \A a \in Senders \cap Written :
                  b.state[a].info.nonce =
                      unwrap_or_default(db[a]).nonce
                      + Cardinality({ i \in 1 .. Len(receipts) : Txs[i].sender = a })
           /\ chain_spec.beacon_root => b.state[BEACON_ROOTS_ADDRESS].info.storage = 1
           /\ chain_spec.canyon_transition => b.state[CREATE2_DEPLOYER_ADDR].info.code
           /\ Beneficiary \in Written => b.state[Beneficiary].info.balance = 1
           /\ state.transition_state = [a \in Addrs |-> NoTransition]
           /\ state.bundle_state.state = [a \in Addrs |-> NoTransition]

C20_Witness ==
    /\ ret.op = "finish"
    /\ ncalls = 4
    /\ Len(receipts) = 2
    /\ Written = {"alice", CREATE2_DEPLOYER_ADDR, Beneficiary}
    /\ ret.bundle.state["alice"].info.nonce = 3
    /\ ret.bundle.state["alice"].previous_info.nonce = 1

\* C21: after finish the State View holds the empty bundle and no transition,
\* and a second finish right after the first returns a bundle without any
\* account and without any account's revert, not the block's changes again.
C21_FinishConsumes ==
    ret.op = "finish" =>
        /\ state.bundle_state = EmptyBundle
        /\ state.transition_state = [a \in Addrs |-> NoTransition]
        /\ ncalls = 5 =>
               /\ ret.bundle.state = [a \in Addrs |-> NoTransition]
               /\ \A k \in 1 .. Len(ret.bundle.reverts) : ret.bundle.reverts[k] = {}

C21_Witness ==
    /\ ret.op = "finish"
    /\ ncalls = 5
    /\ Len(receipts) = 2
    /\ Written = {"alice", BEACON_ROOTS_ADDRESS, Beneficiary}
    /\ ret.bundle.state["alice"] = NoTransition

\* The strategy numbered n, running or not.
StrategyOf(n) == IF parked.id = n THEN parked ELSE Running

Validated ==
    /\ ret.op = "apply_post_execution_changes"
    /\ ret'.op = "validate_block_post_execution"

\* C23: no step of any phase changes the block or the chain spec, and a
\* validate_block_post_execution call, whether it answers Ok or a mismatch,
\* leaves the State View and the receipts as they were.
C23_InputsUnchanged ==
    [][/\ block' = block
       /\ chain_spec' = chain_spec
       /\ Validated => state' = state /\ receipts' = receipts]_vars

C23_Witness ==
    /\ ret.op = "validate_block_post_execution"
    /\ ret.kind = "err"
    /\ Len(receipts) = 2
    /\ state.transition_state["alice"] # NoTransition

C25_NoUnderflow == InLoop => cumulative_gas_used <= block.gas_limit

\* Where the bound of C25 is passed: only before Regolith and only after a
\* system transaction was executed.
C25_OnlyAfterSystemTx ==
    InLoop /\ cumulative_gas_used > block.gas_limit =>
        /\ ~is_regolith
        /\ \E i \in 1 .. idx - 1 : is_system_transaction(Txs[i])

\* A step in which transact() returns Ok(ResultAndState).
VmReturned ==
    /\ Len(vm_calls') = Len(vm_calls) + 1
    /\ vm_calls'[Len(vm_calls')].ok

\* C26: when the VM executes a transaction without an error, successfully or
\* not (revert, halt), the block goes on: the diff is committed, the gas used
\* is added, one receipt is appended whose success flag is the VM's, and the
\* loop moves to the next transaction without a return.
C26_UnsuccessfulContinues ==
    [][VmReturned =>
         LET call   == vm_calls'[Len(vm_calls')]
             sender == CurTx.sender
         IN /\ pc' = "loop"
            /\ ret' = ret
            /\ idx' = idx + 1
            /\ cumulative_gas_used' = (cumulative_gas_used + call.gas_used) % U64_MODULUS
            /\ Len(receipts') = Len(receipts) + 1
            /\ SubSeq(receipts', 1, Len(receipts)) = receipts
            /\ receipts'[Len(receipts')].success = call.success
            /\ state'.transition_state[sender] # NoTransition
            /\ unwrap_or_default(Visible(state', sender)).nonce
                 = unwrap_or_default(call.view[sender]).nonce + 1]_vars

C26_Witness ==
    /\ Succeeded
    /\ Len(receipts) = 2
    /\ ~receipts[1].success
    /\ receipts[2].success
    /\ ~vm_calls[1].success
    /\ vm_calls[1].gas_used = 1
    /\ receipts[2].cumulative_gas_used = 2

\* The failing transaction's gas limit exceeds the gas left in the block and
\* the gas-limit check applies to it.
OverRemainingGas ==
    /\ CurTx.gas_limit > RemainingGas
    /\ is_regolith \/ ~is_system_transaction(CurTx)

\* What the strategy called for the failing transaction.
FailedTxEffects ==
    { e.kind : e \in { effects[k] : k \in { n \in 1 .. Len(effects) :
                          effects[n].call = 2 /\ effects[n].index = idx } } }

\* C27: the checks of a transaction run in the order gas limit, blob type,
\* depositor snapshot, VM, and the first that fails gives the error: a
\* transaction over the remaining block gas, a blob transaction too, fails
\* with the gas-limit error; a blob transaction within it fails with
\* BlobTransactionRejected; a transaction rejected by one of the two made no
\* store access and no VM run; the later errors come only for transactions
\* that passed both.
C27_CheckOrder ==
    Failed =>
        /\ OverRemainingGas =>
               ret.error.name = "TransactionGasLimitMoreThanAvailableBlockGas"
        /\ ~OverRemainingGas /\ IsBlob => ret.error.name = "BlobTransactionRejected"
        /\ ret.error.name \in {"TransactionGasLimitMoreThanAvailableBlockGas",
                                "BlobTransactionRejected"} =>
               /\ FailedTxEffects \cap {"load_cache_account", "transact"} = {}
               /\ Len(vm_calls) = idx - 1
        /\ ret.error.name = "BlobTransactionRejected" => IsBlob
        /\ ret.error.name = "AccountLoadFailed" =>
               /\ ~OverRemainingGas /\ ~IsBlob
               /\ "transact" \notin FailedTxEffects
        /\ ret.error.name = "EVM" => ~OverRemainingGas /\ ~IsBlob

\* The order of C27 in every run in which the subtraction of line 170 did
\* not underflow.
C27_OrderUnlessUnderflow == ~SubOverflows => C27_CheckOrder

C27_BlobOverGas ==
    /\ Failed
    /\ IsBlob
    /\ OverRemainingGas
    /\ ~SubOverflows
    /\ idx = 2
    /\ ret.error.name = "TransactionGasLimitMoreThanAvailableBlockGas"

\* C28: a step in which execute_transactions returns an error at transaction
\* idx leaves the State View's write buffer (the transitions and the bundle)
\* exactly as it was when the transaction's turn came: it holds the
\* pre-execution changes and the diffs of the idx - 1 transactions executed
\* before, and nothing of the failing one.
C28_NoRollback ==
    [][(InLoop /\ ret'.kind = "err") =>
         /\ state'.transition_state = state.transition_state
         /\ state'.bundle_state = state.bundle_state
         /\ state'.transition_state[BEACON_ROOTS_ADDRESS].present = chain_spec.beacon_root
         /\ state'.transition_state[CREATE2_DEPLOYER_ADDR].present
              = chain_spec.canyon_transition
         /\ \A a \in Senders :
              LET n == Cardinality({ i \in 1 .. idx - 1 : Txs[i].sender = a })
                  t == state'.transition_state[a]
              IN /\ t.present = (n > 0)
                 /\ n > 0 => t.info.nonce
                               = unwrap_or_default(state.database[a]).nonce + n]_vars

C28_Witness ==
    /\ Failed
    /\ idx = 2
    /\ ret.error.name = "EVM"
    /\ ret.error.error = "Transaction"
    /\ state.transition_state["alice"].present
    /\ state.transition_state[BEACON_ROOTS_ADDRESS].present
    /\ state.transition_state["alice"].info.nonce = 2

\* C29: with Regolith active, the receipt of a Deposit carries as
\* deposit_nonce the sender's nonce as the transactions before it in the
\* block left it (the store's nonce, 0 for a sender without an account, plus
\* one for each earlier transaction of the sender), and AccountLoadFailed is
\* returned only when the store failed to answer, not for a missing account.
C29_SnapshotOverlay ==
    /\ is_regolith =>
          \A i \in 1 .. Len(receipts) :
              is_deposit(Txs[i]) =>
                  LET stored  == state.database[Txs[i].sender]
                      earlier == Cardinality({ j \in 1 .. i - 1 :
                                                 Txs[j].sender = Txs[i].sender })
                  IN receipts[i].deposit_nonce
                       = Some((IF stored.exists THEN stored.nonce ELSE 0) + earlier)
    /\ (Failed /\ ret.error.name = "AccountLoadFailed") =>
          answers.store[CurTx.sender] = "err"

C29_Witness ==
    /\ is_regolith
    /\ Len(receipts) = 2
    /\ ~state.database["alice"].exists
    /\ is_deposit(Txs[1])
    /\ is_deposit(Txs[2])
    /\ receipts[1].deposit_nonce = Some(0)
    /\ receipts[2].deposit_nonce = Some(1)
    /\ answers.store["alice"] = "ok"

\* What C30 expects of block_receipts and block_receipts_eth for a block that
\* was found.
ReceiptsOfBlock(blk, rcpts, res) ==
    LET n == LenMin(blk.transactions, rcpts)
    IN IF \A i \in 1 .. n : blk.transactions[i].signed
       THEN /\ res.kind = "Ok"
            /\ res.value.some
            /\ Len(res.value.val) = n
            /\ \A i \in 1 .. n :
                  LET r == res.value.val[i]
                  IN /\ r.transaction_index = i - 1
                     /\ r.transaction_hash = blk.transactions[i].hash
                     /\ r.cumulative_gas_used = rcpts[i].cumulative_gas_used
                     /\ r.block_hash = blk.hash
                     /\ r.block_number = blk.number
                     /\ r.base_fee = blk.base_fee_per_gas
                     /\ r.timestamp = blk.timestamp
       ELSE /\ res.kind = "Err"
            /\ res.value = None

\* C30: block_receipts and block_receipts_eth return Ok(None) when the block
\* is not found; for a block that is found they return one RPC receipt per
\* (transaction, receipt) pair, in block order, the receipt at position i
\* with transaction index i and the block's hash, number, base fee and
\* timestamp, and fail as a whole, without a list, when one receipt cannot be
\* built.  block_receipts_op returns Ok(None) whatever the provider holds.
C30_BlockReceipts ==
    rpc_response # NoResponse =>
        /\ rpc_request.method \in {"block_receipts", "block_receipts_eth"} =>
              LET load == rpc_request.load
              IN /\ (load.kind = "Ok" /\ ~load.found) => rpc_response = RpcOk(None)
                 /\ (load.kind = "Ok" /\ load.found) =>
                        ReceiptsOfBlock(load.block, load.receipts, rpc_response)
        /\ rpc_request.method = "block_receipts_op" => rpc_response = RpcOk(None)

C30_Witness ==
    /\ rpc_request.method = "block_receipts"
    /\ rpc_request.load.found
    /\ Len(rpc_request.load.block.transactions) = 2
    /\ Len(rpc_request.load.receipts) = 2
    /\ rpc_response.kind = "Ok"
    /\ rpc_response.value.val[2].transaction_index = 1
    /\ rpc_response.value.val[2].transaction_hash = "0xb"
    /\ rpc_response.value.val[2].base_fee = Some(1)

C31_FillReturns ==
    (rpc_response # NoResponse /\ rpc_request.method = "fill") =>
        (rpc_response.kind = "Ok") = (rpc_request.tx.tx_type # "Eip4844")

First4Bytes(input) == SubSeq(input, 1, IF Len(input) < 4 THEN Len(input) ELSE 4)

Truncated ==
    rpc_response # NoResponse /\ rpc_request.method = "otterscan_api_truncate_input"

\* C32: otterscan_api_truncate_input, applied once or twice to an RPC
\* transaction of a type the builder handles, with an input of any length,
\* returns without failing and leaves the transaction as it was but for the
\* input, which is its first 4 bytes (all of it when it is shorter).
C32_TruncateInput ==
    Truncated =>
        /\ rpc_response.kind = "Ok"
        /\ rpc_response.value =
              [rpc_request.tx EXCEPT !.inner.input = First4Bytes(rpc_request.tx.inner.input)]

\* C32 for the inputs of 4 bytes and more, and what happens to the shorter
\* ones: the call panics.
C32_TruncateLongInput ==
    Truncated =>
        IF Len(rpc_request.tx.inner.input) >= 4
        THEN C32_TruncateInput
        ELSE rpc_response.kind = "Panic"

C32_EmptyInputPanics ==
    /\ Truncated
    /\ rpc_request.tx.inner.input = << >>
    /\ rpc_request.tx.inner.tx_type = "Legacy"
    /\ rpc_request.times = 1
    /\ rpc_response.kind = "Panic"

C32_LongInputTruncated ==
    /\ Truncated
    /\ rpc_request.builder = "OpTxBuilder"
    /\ rpc_request.tx.inner.tx_type = "Deposit"
    /\ Len(rpc_request.tx.inner.input) = 5
    /\ rpc_request.times = 2
    /\ rpc_response.kind = "Ok"
    /\ Len(rpc_response.value.inner.input) = 4

====
